---- MODULE Spec2Model ----
(***************************************************************************)
(* Model of the Pdm-AI-Engine online path:                                 *)
(*   - ai_api.py        predict_health (guardrails, blended risk, ensemble)*)
(*   - db_poll_client.py FeatureEngineer and poll_and_process (connector)  *)
(*                                                                         *)
(* Numbers are fixed point:                                                *)
(*   pressure            thousandths of a bar   (0.5 bar = 500)            *)
(*   drift, r2           thousandths            (0.005 = 5, r2 1.0 = 1000) *)
(*   probabilities, risk ten-thousandths        (0.4 = 4000)               *)
(*   timestamps          whole seconds                                     *)
(***************************************************************************)
EXTENDS Integers, Sequences, FiniteSets, TLC

\* ------------------------------------------------------------------------
\* Generic helpers
\* ------------------------------------------------------------------------
Abs(x) ==
  IF x < 0 THEN -x ELSE x

Max(a, b) ==
  IF a >= b THEN a ELSE b

SetMax(S) ==
  IF S = {} THEN 0 ELSE CHOOSE m \in S : \A x \in S : x <= m

\* ------------------------------------------------------------------------
\* ai_api.py : request data and strings
\* ------------------------------------------------------------------------
\* machine_state strings are sequences of characters so that upper() and
\* strip() are computed, not assumed.
LabelChars ==
  [ QUENCH     |-> <<"Q","U","E","N","C","H">>,
    quench_pad |-> <<" ","q","u","e","n","c","h"," ">>,
    Completed  |-> <<"C","o","m","p","l","e","t","e","d">>,
    HEATING    |-> <<"H","E","A","T","I","N","G">>,
    LOADING_nl |-> <<"L","O","A","D","I","N","G","\n">>,
    UNKNOWN    |-> <<"U","N","K","N","O","W","N">> ]

StateLabels ==
  DOMAIN LabelChars

Whitespace ==
  {" ", "\n", "\t"}

UpperChar(c) ==
  CASE c = "q" -> "Q" [] c = "u" -> "U" [] c = "e" -> "E" [] c = "n" -> "N"
    [] c = "c" -> "C" [] c = "h" -> "H" [] c = "o" -> "O" [] c = "m" -> "M"
    [] c = "p" -> "P" [] c = "l" -> "L" [] c = "t" -> "T" [] c = "d" -> "D"
    [] OTHER -> c

Upper(s) ==
  [i \in 1..Len(s) |-> UpperChar(s[i])]

RECURSIVE LStrip(_)
LStrip(s) ==
  IF s # <<>> /\ Head(s) \in Whitespace THEN LStrip(Tail(s)) ELSE s

RECURSIVE RStrip(_)
RStrip(s) ==
  IF s # <<>> /\ s[Len(s)] \in Whitespace
    THEN RStrip(SubSeq(s, 1, Len(s) - 1)) ELSE s

Strip(s) ==
  RStrip(LStrip(s))

valid_states ==
  { <<"Q","U","E","N","C","H">>, <<"C","O","M","P","L","E","T","E","D">> }

current_state(machine_state) ==
  Strip(Upper(LabelChars[machine_state]))

\* Thresholds of predict_health, in the fixed-point units above.
StandbyPressure ==
  1000

OfflinePressure ==
  500

OfflineRisk ==
  9900

Deadband ==
  5

OptimalBelow ==
  4000

WarningBelow ==
  8000

ForceCritical ==
  9000

\* ------------------------------------------------------------------------
\* ai_api.py : the classifiers (opaque capabilities)
\* ------------------------------------------------------------------------
\* What one classifier call can do: raise, or give (label, probability).
Raises ==
  [raises |-> TRUE, pred |-> 0, prob |-> 0]

Gives(pred, prob) ==
  [raises |-> FALSE, pred |-> pred, prob |-> prob]

ProbGrid ==
  {0, 500, 3000, 5000, 8500, 9500, 10000}

XgbOutcomes ==
  {Raises} \cup {Gives(IF p >= 5000 THEN 1 ELSE 0, p) : p \in ProbGrid}

RfOutcomes ==
  {Raises} \cup {Gives(l, p) : l \in {0, 1}, p \in {2000, 9700, 10000}}

\* xgb_model.predict_proba / predict: a model that failed to load is None,
\* so the attribute access raises.
XgbCall(loaded, xgb) ==
  IF loaded THEN xgb ELSE Raises

RfCall(loaded, rf) ==
  IF loaded THEN rf ELSE Raises

\* ------------------------------------------------------------------------
\* ai_api.py : predict_health
\* ------------------------------------------------------------------------
NoField ==
  -1

Verdict(status, risk, conf, rca, dv) ==
  [kind |-> "verdict", status |-> status, risk_score |-> risk,
   confidence |-> conf, rca |-> rca, drift_velocity |-> dv]

ErrorResult ==
  [kind |-> "error", status |-> "", risk_score |-> NoField,
   confidence |-> NoField, rca |-> "", drift_velocity |-> NoField]

\* An exception that leaves predict_health: the framework answers HTTP 500.
Unhandled ==
  [kind |-> "exception", status |-> "", risk_score |-> NoField,
   confidence |-> NoField, rca |-> "", drift_velocity |-> NoField]

\* Mutant: a drift of exactly 0.005 is forced to zero as well.
Drift_Velocity_inclusive(drift) ==
  IF Abs(drift) <= Deadband THEN 0 ELSE drift

\* 'Drift_Velocity': 0.0 if abs(data.drift) < 0.005 else data.drift
Drift_Velocity(drift) ==
  IF Abs(drift) < Deadband THEN 0 ELSE drift

\* Mutant: the warning segment rises to 0.4 only, with a jump at -0.05.
drift_risk_shallow(drift_val) ==
  IF drift_val >= -10 THEN 0
  ELSE IF drift_val >= -50 THEN (Abs(drift_val) - 10) * 100
  ELSE IF drift_val >= -100 THEN 5000 + (Abs(drift_val) - 50) * 100
  ELSE 10000

\* Mutant: the critical segment starts at 0.4 instead of 0.5, so the curve
\* drops when the drift passes -0.05.
drift_risk_gap(drift_val) ==
  IF drift_val >= -10 THEN 0
  ELSE IF drift_val >= -50 THEN (Abs(drift_val) - 10) * 125
  ELSE IF drift_val >= -100 THEN 4000 + (Abs(drift_val) - 50) * 100
  ELSE 10000

drift_risk(drift_val) ==
  IF drift_val >= -10 THEN 0
  ELSE IF drift_val >= -50 THEN (Abs(drift_val) - 10) * 125
  ELSE IF drift_val >= -100 THEN 5000 + (Abs(drift_val) - 50) * 100
  ELSE 10000

\* Mutant: the blend without its floor at the classifier's probability.
blended_risk_noFloor(xgb_prob, drift_val) ==
  (drift_risk(drift_val) * 8 + xgb_prob * 2) \div 10

\* Mutant: the weights of the blend exchanged (0.2 on drift, 0.8 on the
\* classifier).
blended_risk_swapped(xgb_prob, drift_val) ==
  Max(xgb_prob, (drift_risk(drift_val) * 2 + xgb_prob * 8) \div 10)

blended_risk(xgb_prob, drift_val) ==
  Max(xgb_prob, (drift_risk(drift_val) * 8 + xgb_prob * 2) \div 10)

\* Mutant: the override applies from 0.9 on instead of above 0.9.
Escalate_atThreshold(blended, drift_val, rfc) ==
  IF rfc.raises THEN Unhandled
  ELSE IF rfc.pred = 1 \/ blended >= ForceCritical
    THEN Verdict("CRITICAL_FAILURE", Max(blended, rfc.prob), NoField,
                 "DRIFT_CONFIRMED", drift_val)
    ELSE Verdict("WARNING", blended, NoField, "EARLY_DRIFT", drift_val)

Escalate(blended, drift_val, rfc) ==
  IF rfc.raises THEN Unhandled
  ELSE IF rfc.pred = 1 \/ blended > ForceCritical
    THEN Verdict("CRITICAL_FAILURE", Max(blended, rfc.prob), NoField,
                 "DRIFT_CONFIRMED", drift_val)
    ELSE Verdict("WARNING", blended, NoField, "EARLY_DRIFT", drift_val)

Classify(blended, drift_val, rfc) ==
  IF blended < OptimalBelow
    THEN Verdict("OPTIMAL", blended, NoField, "NONE", drift_val)
  ELSE IF blended < WarningBelow
    THEN Verdict("WARNING", blended, NoField, "EARLY_DRIFT", drift_val)
  ELSE Escalate(blended, drift_val, rfc)

Inference(data, xgbc, rfc) ==
  IF xgbc.raises THEN ErrorResult
  ELSE Classify(blended_risk(xgbc.prob, Drift_Velocity(data.drift)),
                Drift_Velocity(data.drift), rfc)

\* Mutant: the standby gate also taken at exactly the minimum pressure.
StandbyGate_inclusive(data) ==
  /\ current_state(data.machine_state) \notin valid_states
  /\ data.pressure <= StandbyPressure

StandbyGate(data) ==
  /\ current_state(data.machine_state) \notin valid_states
  /\ data.pressure < StandbyPressure

\* Mutant: the offline floor taken one thousandth of a bar too low.
OfflineGate_lowFloor(data) ==
  data.pressure < OfflinePressure - 1

OfflineGate(data) ==
  data.pressure < OfflinePressure

predict_health(data, loaded, xgb, rf) ==
  IF StandbyGate(data) THEN Verdict("STANDBY", 0, 0, "", NoField)
  ELSE IF OfflineGate(data) THEN Verdict("OFFLINE", OfflineRisk, 0, "", NoField)
  ELSE Inference(data, XgbCall(loaded, xgb), RfCall(loaded, rf))


\* ------------------------------------------------------------------------
\* db_poll_client.py : configuration and bounds
\* ------------------------------------------------------------------------
WINDOW_SIZE ==
  20

MinSamples ==
  5

BatchLimit ==
  50

LagThreshold ==
  1000

\* Sample ids the simulator can hand out: a few small ids and a few ids just
\* beyond the lag threshold, so that both sides of "backlog > 1000" occur.
NumLowIds ==
  2

NumHighIds ==
  2

\* Transient store faults (database locked and the like) injected per run.
MaxFaults ==
  1

IdUniverse ==
  (1..NumLowIds) \cup {LagThreshold + 1 + k : k \in 1..NumHighIds}

\* Seconds between two consecutive sample ids (simulator clock).
SampleSeconds ==
  30

\* ------------------------------------------------------------------------
\* db_poll_client.py : FeatureEngineer
\* ------------------------------------------------------------------------
RECURSIVE Sum(_)
Sum(s) ==
  IF s = <<>> THEN 0 ELSE Head(s) + Sum(Tail(s))

\* floor(f1 * f2 * ... * (q + r/c)) for the factors fs, without forming the
\* full product (machine integers are 32 bit).
RECURSIVE ScaleDiv(_, _, _, _)
ScaleDiv(q, r, c, fs) ==
  IF fs = <<>> THEN q
  ELSE ScaleDiv(q * Head(fs) + (r * Head(fs)) \div c, (r * Head(fs)) % c,
                c, Tail(fs))

\* Mutant: a full window refuses the new reading instead of evicting the
\* oldest one.
add_reading_keepOldest(hist, timestamp_sec, pressure) ==
  LET h == Append(hist, <<timestamp_sec, pressure>>)
  IN  IF Len(h) > WINDOW_SIZE THEN SubSeq(h, 1, WINDOW_SIZE) ELSE h

add_reading(hist, timestamp_sec, pressure) ==
  LET h == Append(hist, <<timestamp_sec, pressure>>)
  IN  IF Len(h) > WINDOW_SIZE THEN Tail(h) ELSE h

\* Euclid's algorithm; the remainder is bound to a value before the next
\* round.
RECURSIVE GCD(_, _)
GCD(a, b) ==
  IF b = 0 THEN a ELSE CHOOSE g \in {GCD(b, r) : r \in {a % b}} : TRUE

\* n * sum(a*b) - sum(a) * sum(b): n^2 times the covariance of a and b,
\* taken on the values relative to the first ones (the covariance does not
\* depend on the origin; machine integers are 32 bit).
Cov(a, b) ==
  CHOOSE v \in {Len(a) * Sum([i \in 1..Len(a) |-> da[i] * db[i]])
                  - Sum(da) * Sum(db) :
                da \in {[i \in 1..Len(a) |-> a[i] - a[1]]},
                db \in {[i \in 1..Len(b) |-> b[i] - b[1]]}} : TRUE

\* r_value ** 2 = cov(t,y)^2 / (cov(t,t) * cov(y,y)) in thousandths (floor),
\* the fraction reduced to lowest terms before it is scaled; 0 when y is
\* constant.
r_squared(cxx, cyy, cxy) ==
  LET g1 == GCD(Abs(cxy), cxx)
      g2 == GCD(Abs(cxy), cyy)
      h1 == GCD(Abs(cxy) \div g1, cyy \div g2)
      h2 == GCD(Abs(cxy) \div g2, cxx \div g1)
      num == ((Abs(cxy) \div g1) \div h1) * ((Abs(cxy) \div g2) \div h2)
      den == ((cxx \div g1) \div h2) * ((cyy \div g2) \div h1)
  IN  IF cyy = 0 \/ cxy = 0 THEN 0
      ELSE ScaleDiv(num \div den, num % den, den, <<2, 2, 2, 5, 5, 5>>)

\* scipy.stats.linregress: raises on identical x, else slope and r^2.
\* t in seconds, y in thousandths of a bar; slope = 60 * cov(t,y) / cov(t,t)
\* bar per minute, in thousandths (floor).
LinFit(cxx, cyy, cxy) ==
  IF cxx = 0 THEN [raised |-> TRUE, slope |-> 0, r2 |-> 0]
  ELSE [raised |-> FALSE,
        slope  |-> ScaleDiv(cxy \div cxx, cxy % cxx, cxx, <<2, 2, 3, 5>>),
        r2     |-> r_squared(cxx, cyy, cxy)]

linregress(t, y) ==
  CHOOSE fit \in {LinFit(cxx, cyy, cxy) :
                    cxx \in {Cov(t, t)}, cyy \in {Cov(y, y)},
                    cxy \in {Cov(t, y)}} : TRUE

\* Mutant: the variance check left out.
Flatline_never(y) ==
  FALSE

\* Mutant: the variance threshold ten times too large (0.001).
Flatline_wide(y) ==
  Cov(y, y) < 1000 * Len(y) * Len(y)

\* np.var(y) < 0.0001 bar^2, y in thousandths of a bar
Flatline(y) ==
  Cov(y, y) < 100 * Len(y) * Len(y)

\* Mutant: four samples taken to be enough for a regression.
TooFew_four(hist) ==
  Len(hist) < MinSamples - 1

\* len(self.history) < 5
TooFew(hist) ==
  Len(hist) < MinSamples

calculate_features(hist) ==
  LET t == [i \in 1..Len(hist) |-> hist[i][1] - hist[1][1]]
      y == [i \in 1..Len(hist) |-> hist[i][2]]
      fit == linregress(t, y)
  IN  IF TooFew(hist) THEN [drift |-> 0, r2 |-> 1000]
      ELSE IF Flatline(y) THEN [drift |-> 0, r2 |-> 1000]
      ELSE IF fit.raised THEN [drift |-> 0, r2 |-> 0]
      ELSE [drift |-> fit.slope, r2 |-> fit.r2]

\* parse_timestamp on a numeric timestamp_sim: float(ts_value)
parse_timestamp(ts_value) ==
  ts_value


\* ------------------------------------------------------------------------
\* State
\* ------------------------------------------------------------------------
VARIABLES
  telemetry,          \* store: id -> row (the connector's view, see snap)
  coldef,             \* store schema: column -> "absent" | "native" | "added"
  snap,               \* <<>> or <<committed store>> while a write
                      \*   transaction of the connector is open
  modelsLoaded,       \* ai_api: xgb_model is not None
  pc,                 \* connector: position in poll_and_process
  last_processed_id,  \* connector: in-memory cursor
  history,            \* connector: engineer.history
  rows,               \* connector: rows of the batch not yet processed (ids)
  feat,               \* connector: drift, r2 of the row in hand
  resp,               \* connector: response of the /predict call
  faults,             \* number of transient store faults injected
  fedIds,             \* history: ids the main loop fed, this instance
  judged,             \* history: ids /predict answered with a verdict,
                      \*   this instance
  boot,               \* history: what startup saw and decided
  req,                \* ai_api: last direct /predict request
  res,                \* ai_api: its result
  signal,             \* the pressure signal fed to a FeatureEngineer on its own
  arrived,            \* history: the readings of that signal passed to
                      \*   add_reading so far, in call order
  ws,                 \* ai_dashboard: connection -> state of its handler
  active_connections  \* ai_dashboard: manager.active_connections

dashVars ==
  <<ws, active_connections>>

vars ==
  <<telemetry, coldef, snap, modelsLoaded, pc, last_processed_id, history,
    rows, feat, resp, faults, fedIds, judged, boot, req, res, arrived, signal,
    dashVars>>

\* ------------------------------------------------------------------------
\* The store (SQLite table telemetry)
\* ------------------------------------------------------------------------
FeatureCols ==
  {"drift_velocity", "confidence_r2"}

VerdictCols ==
  {"ai_risk_score", "ai_status"}

AllCols ==
  FeatureCols \cup VerdictCols

\* SQL NULL of a numeric column / of a text column
NullNum ==
  -99999

NullText ==
  "NULL"

\* Raw samples the simulator writes: quench_pressure, state, part_temp,
\* coil_scan_speed, quench_water_flow (0 stands for an empty field).
RunningSample ==
  [quench_pressure |-> 3200, state |-> "QUENCH", part_temp |-> 900,
   coil_scan_speed |-> 10, quench_water_flow |-> 120]

IdleSample ==
  [quench_pressure |-> 300, state |-> "HEATING", part_temp |-> 0,
   coil_scan_speed |-> 0, quench_water_flow |-> 0]

\* The simulator's cycle: every other sample is taken while heating.
RawOf(id) ==
  IF id % 2 = 0 THEN IdleSample ELSE RunningSample

\* DEFAULT clause of the connector's ALTER TABLE ... ADD COLUMN statements
AddedDefault(col) ==
  IF col = "ai_status" THEN "UNKNOWN" ELSE 0

NullOf(col) ==
  IF col = "ai_status" THEN NullText ELSE NullNum

\* Value a row shows in column col when nothing was written to it:
\* a simulator-made column is nullable, a column the connector added carries
\* the DEFAULT of its ALTER TABLE statement.
DefaultOf(c, col) ==
  IF c[col] = "added" THEN AddedDefault(col) ELSE NullOf(col)

NewRow(c, raw, ts) ==
  [raw |-> raw, timestamp_sim |-> ts,
   drift_velocity |-> DefaultOf(c, "drift_velocity"),
   confidence_r2  |-> DefaultOf(c, "confidence_r2"),
   ai_risk_score  |-> DefaultOf(c, "ai_risk_score"),
   ai_status      |-> DefaultOf(c, "ai_status")]

HasCols(c, cols) ==
  \A col \in cols : c[col] # "absent"

\* ALTER TABLE telemetry ADD COLUMN col ... DEFAULT ...
AddColumnDef(c, col) ==
  [c EXCEPT ![col] = "added"]

AddColumnRows(t, col) ==
  [id \in DOMAIN t |-> [t[id] EXCEPT ![col] = AddedDefault(col)]]

\* What a reader other than the connector sees: committed data only.
Committed ==
  IF snap = <<>> THEN [t |-> telemetry, c |-> coldef] ELSE snap[1]

\* Sorted ascending sequence of a finite set of ids.
RECURSIVE Ascending(_)
Ascending(S) ==
  IF S = {} THEN <<>>
  ELSE LET m == CHOOSE x \in S : \A y \in S : x <= y
       IN  <<m>> \o Ascending(S \ {m})

Take(s, n) ==
  IF Len(s) <= n THEN s ELSE SubSeq(s, 1, n)

LastN(s, n) ==
  IF Len(s) <= n THEN s ELSE SubSeq(s, Len(s) - n + 1, Len(s))

\* row['quench_pressure'] or 0.0
PressureOf(row) ==
  row.raw.quench_pressure

VerdictStatuses ==
  {"STANDBY", "OFFLINE", "OPTIMAL", "WARNING", "CRITICAL_FAILURE"}


\* ------------------------------------------------------------------------
\* db_poll_client.py : poll_and_process, start-up (lines 117-164)
\* ------------------------------------------------------------------------
NoFeat ==
  [drift |-> 0, r2 |-> NoField]

NoResp ==
  [code |-> -1, body |-> Unhandled]

NoBoot ==
  [done |-> FALSE, resume |-> 0, newest |-> 0, cursor |-> 0]

\* SELECT MAX(id) FROM telemetry WHERE ai_status IS NOT NULL
MaxAnalyzedId(t) ==
  SetMax({id \in DOMAIN t : t[id].ai_status # NullText})

\* SELECT MAX(id) FROM telemetry
MaxId(t) ==
  SetMax(DOMAIN t)

\* rows that carry a verdict of the decision engine
HasVerdict(t, c, id) ==
  /\ id \in DOMAIN t
  /\ c["ai_status"] # "absent"
  /\ t[id].ai_status \in VerdictStatuses

LastVerdictId(t, c) ==
  SetMax({id \in DOMAIN t : HasVerdict(t, c, id)})

\* greatest id whose ai_status is set in the store (0 when there is none)
ResumePoint(t, c) ==
  IF c["ai_status"] = "absent" THEN 0 ELSE MaxAnalyzedId(t)

LagSkip(cursor, max_id) ==
  IF max_id - cursor > LagThreshold THEN max_id ELSE cursor

\* Mutant: the warm-up query in ascending order, taking the oldest rows.
WarmupIds_oldest(t, cursor) ==
  Take(Ascending({id \in DOMAIN t : id <= cursor}), WINDOW_SIZE)

\* SELECT ... WHERE id <= ? ORDER BY id DESC LIMIT WINDOW_SIZE, reversed
WarmupIds(t, cursor) ==
  LastN(Ascending({id \in DOMAIN t : id <= cursor}), WINDOW_SIZE)

RECURSIVE FeedAll(_, _, _)
FeedAll(hist, t, ids) ==
  IF ids = <<>> THEN hist
  ELSE FeedAll(add_reading(hist, parse_timestamp(t[Head(ids)].timestamp_sim),
                           PressureOf(t[Head(ids)])),
               t, Tail(ids))

StartFaults ==
  {"none", "q1", "q2", "q3"}

\* Cursor the warm-up block leaves behind; f names the query that fails.
StartCursor(t, c, f) ==
  IF f = "q1" \/ c["ai_status"] = "absent" THEN 0
  ELSE IF f = "q2" THEN MaxAnalyzedId(t)
  ELSE LagSkip(MaxAnalyzedId(t), MaxId(t))

StartHistory(t, c, f) ==
  IF f # "none" \/ c["ai_status"] = "absent" THEN <<>>
  ELSE FeedAll(<<>>, t, WarmupIds(t, StartCursor(t, c, f)))

Startup ==
  /\ pc = "start"
  /\ \E f \in StartFaults :
       \E cursor \in {StartCursor(telemetry, coldef, f)},
          hist \in {StartHistory(telemetry, coldef, f)} :
         /\ f # "none" => faults < MaxFaults /\ coldef["ai_status"] # "absent"
         /\ faults' = IF f = "none" THEN faults ELSE faults + 1
         /\ last_processed_id' = cursor
         /\ history' = hist
         /\ boot' = [done |-> TRUE,
                     resume |-> ResumePoint(telemetry, coldef),
                     newest |-> MaxId(telemetry),
                     cursor |-> cursor]
  /\ pc' = "poll"
  /\ UNCHANGED <<signal, dashVars, arrived, telemetry, coldef, snap,
                 modelsLoaded, rows, feat, resp, fedIds, judged, req, res>>

\* ------------------------------------------------------------------------
\* db_poll_client.py : poll_and_process, main loop (lines 171-301)
\* ------------------------------------------------------------------------
StoreState(t, c, s, raised) ==
  [t |-> t, c |-> c, s |-> s, raised |-> raised]

\* Closing a connection without commit rolls its transaction back.
Rollback(st) ==
  IF st.s = <<>> THEN StoreState(st.t, st.c, <<>>, st.raised)
  ELSE StoreState(st.s[1].t, st.s[1].c, <<>>, st.raised)

\* SELECT ... WHERE id > ? ORDER BY id ASC LIMIT 50
NewRows(t, cursor) ==
  Take(Ascending({id \in DOMAIN t : id > cursor}), BatchLimit)

\* except Exception as e: print, sleep(1), next iteration on a new connection
LoopError(st) ==
  /\ pc' = "poll"
  /\ rows' = <<>>
  /\ feat' = NoFeat
  /\ resp' = NoResp
  /\ telemetry' = Rollback(st).t
  /\ coldef' = Rollback(st).c
  /\ snap' = <<>>

Poll ==
  /\ pc = "poll"
  /\ \/ /\ faults < MaxFaults
        /\ faults' = faults + 1
        /\ LoopError(StoreState(telemetry, coldef, snap, TRUE))
     \/ /\ rows' = NewRows(telemetry, last_processed_id)
        /\ pc' = IF NewRows(telemetry, last_processed_id) = <<>>
                   THEN "poll" ELSE "feed"
        /\ UNCHANGED <<telemetry, coldef, snap, feat, resp, faults>>
  /\ UNCHANGED <<signal, dashVars, arrived, modelsLoaded, last_processed_id,
                 history, fedIds, judged, boot, req, res>>

\* UPDATE telemetry SET drift_velocity = ?, confidence_r2 = ? WHERE id = ?
SetFeatures(t, id, fv) ==
  [t EXCEPT ![id].drift_velocity = fv.drift, ![id].confidence_r2 = fv.r2]

\* The sqlite3 module opens a transaction before the first UPDATE that runs.
BeginWith(t, c, s) ==
  IF s = <<>> THEN <<[t |-> t, c |-> c]>> ELSE s

FeedFaults ==
  {"none", "update", "alter1", "alter2", "retry"}

\* Is the statement f names executed at all from schema c?
FeedFaultReached(c, f) ==
  CASE f = "none"   -> TRUE
    [] f = "update" -> HasCols(c, FeatureCols)
    [] f = "alter1" -> c["drift_velocity"] = "absent"
    [] f = "alter2" -> c["drift_velocity"] = "absent" /\ c["confidence_r2"] = "absent"
    [] f = "retry"  -> c["drift_velocity"] = "absent" /\ c["confidence_r2"] = "absent"

\* The two ALTER TABLE statements of the B2 handler and the retried UPDATE;
\* a failing statement leaves the handler as an exception.
AddFeatureColumns(t, c, s, id, fv, f) ==
  LET t1 == AddColumnRows(t, "drift_velocity")
      c1 == AddColumnDef(c, "drift_velocity")
      t2 == AddColumnRows(t1, "confidence_r2")
      c2 == AddColumnDef(c1, "confidence_r2")
  IN  IF c["drift_velocity"] # "absent" \/ f = "alter1"
        THEN StoreState(t, c, s, TRUE)
      ELSE IF c["confidence_r2"] # "absent" \/ f = "alter2"
        THEN StoreState(t1, c1, s, TRUE)
      ELSE IF f = "retry"
        THEN StoreState(t2, c2, s, TRUE)
      ELSE StoreState(SetFeatures(t2, id, fv), c2, BeginWith(t2, c2, s), FALSE)

\* Step B2: write drift/r2; f names the statement hit by a transient fault.
WriteFeatures(t, c, s, id, fv, f) ==
  IF HasCols(c, FeatureCols)
    THEN IF f = "update" THEN StoreState(t, c, s, FALSE)
         ELSE StoreState(SetFeatures(t, id, fv), c, BeginWith(t, c, s), FALSE)
    ELSE AddFeatureColumns(t, c, s, id, fv, f)

\* Steps A, B, B2 for the first row of the batch.
FeedRow ==
  /\ pc = "feed"
  /\ \E f \in FeedFaults,
        h \in {add_reading(history,
                           parse_timestamp(telemetry[Head(rows)].timestamp_sim),
                           PressureOf(telemetry[Head(rows)]))} :
       \E fv \in {calculate_features(h)} :
         \E st \in {WriteFeatures(telemetry, coldef, snap, Head(rows), fv, f)} :
           /\ FeedFaultReached(coldef, f)
           /\ f # "none" => faults < MaxFaults
           /\ faults' = IF f = "none" THEN faults ELSE faults + 1
           /\ history' = h
           /\ fedIds' = fedIds \cup {Head(rows)}
           /\ IF st.raised
                THEN LoopError(st)
                ELSE /\ telemetry' = st.t
                     /\ coldef' = st.c
                     /\ snap' = st.s
                     /\ feat' = fv
                     /\ pc' = "infer"
                     /\ UNCHANGED <<rows, resp>>
  /\ UNCHANGED <<signal, dashVars, arrived, modelsLoaded, last_processed_id,
                 judged, boot, req, res>>

\* Step C: the payload; "x or default" replaces an empty field.
OrDefault(x, d) ==
  IF x = 0 THEN d ELSE x

Payload(row, fv) ==
  [pressure |-> PressureOf(row), drift |-> fv.drift, r2 |-> fv.r2,
   temp |-> OrDefault(row.raw.part_temp, 850),
   scan_speed |-> OrDefault(row.raw.coil_scan_speed, 10),
   flow |-> OrDefault(row.raw.quench_water_flow, 120),
   machine_state |-> row.raw.state]

\* What the classifiers may do on a live request.
LiveXgb ==
  {Raises, Gives(1, 9500)}

LiveRf ==
  {Raises, Gives(1, 9700)}

\* HTTP view of one /predict call: an exception leaving predict_health is a
\* 500, everything it returns (the error dictionary included) is a 200.
HttpResponse(result) ==
  IF result.kind = "exception" THEN [code |-> 500, body |-> Unhandled]
  ELSE [code |-> 200, body |-> result]

\* requests raised Timeout / ConnectionError: there is no response
NoAnswer ==
  [code |-> 0, body |-> Unhandled]

\* Step D: requests.post(API_URL, json=payload, timeout=0.5)
Infer ==
  /\ pc = "infer"
  /\ \/ resp' = NoAnswer
     \/ \E xgb \in LiveXgb, rf \in LiveRf :
          resp' = HttpResponse(predict_health(
                    Payload(telemetry[Head(rows)], feat), modelsLoaded, xgb, rf))
  /\ judged' = IF resp'.code = 200 /\ resp'.body.kind = "verdict"
                 THEN judged \cup {Head(rows)} ELSE judged
  /\ pc' = "write"
  /\ UNCHANGED <<signal, dashVars, arrived, telemetry, coldef, snap,
                 modelsLoaded, last_processed_id, history, rows, feat, faults,
                 fedIds, boot, req, res>>

\* risk = result.get('risk_score', 0.0); status = result.get('status', 'UNKNOWN')
RiskOf(body) ==
  IF body.kind = "verdict" THEN body.risk_score ELSE 0

StatusOf(body) ==
  IF body.kind = "verdict" THEN body.status ELSE "UNKNOWN"

\* UPDATE telemetry SET ai_risk_score, ai_status, drift_velocity, confidence_r2
SetVerdict(t, id, body, fv) ==
  [t EXCEPT ![id].ai_risk_score = RiskOf(body), ![id].ai_status = StatusOf(body),
            ![id].drift_velocity = fv.drift, ![id].confidence_r2 = fv.r2]

\* try: ALTER TABLE ... ADD COLUMN col; except: pass -- for each column
RECURSIVE AddMissing(_, _)
AddMissing(st, cols) ==
  IF cols = <<>> THEN st
  ELSE IF st.c[Head(cols)] # "absent" THEN AddMissing(st, Tail(cols))
  ELSE AddMissing(StoreState(AddColumnRows(st.t, Head(cols)),
                             AddColumnDef(st.c, Head(cols)), st.s, FALSE),
                  Tail(cols))

UpgradeOrder ==
  <<"ai_risk_score", "ai_status", "drift_velocity", "confidence_r2">>

\* Step E: the unified UPDATE; on "no such column" the columns are added
\* and the statement is not run again. locked: a transient fault hits the
\* UPDATE (its OperationalError is dropped).
WriteVerdict(t, c, s, id, body, fv, locked) ==
  IF HasCols(c, AllCols)
    THEN IF locked THEN StoreState(t, c, s, FALSE)
         ELSE StoreState(SetVerdict(t, id, body, fv), c, BeginWith(t, c, s), FALSE)
    ELSE AddMissing(StoreState(t, c, s, FALSE), UpgradeOrder)

\* Step E (only after a 200) and line 291: last_processed_id = row['id'].
WriteBack ==
  /\ pc = "write"
  /\ \E locked \in BOOLEAN :
       LET id == Head(rows)
           st == IF resp.code = 200
                   THEN WriteVerdict(telemetry, coldef, snap, id, resp.body,
                                     feat, locked)
                   ELSE StoreState(telemetry, coldef, snap, FALSE)
       IN  /\ locked => /\ faults < MaxFaults
                        /\ resp.code = 200
                        /\ HasCols(coldef, AllCols)
           /\ faults' = IF locked THEN faults + 1 ELSE faults
           /\ telemetry' = st.t
           /\ coldef' = st.c
           /\ snap' = st.s
           /\ last_processed_id' = id
           /\ rows' = Tail(rows)
           /\ pc' = IF Tail(rows) = <<>> THEN "commit" ELSE "feed"
  /\ feat' = NoFeat
  /\ resp' = NoResp
  /\ UNCHANGED <<signal, dashVars, arrived, modelsLoaded, history, fedIds,
                 judged, boot, req, res>>

\* A connection of another process holds a read lock on the database file.
ReaderHolds ==
  \E c \in DOMAIN ws : ws[c].conn = "open"

\* conn.commit(); conn.close(). The commit needs the exclusive lock: while a
\* reader holds its lock it ends in "database is locked".
Commit ==
  /\ pc = "commit"
  /\ \/ /\ faults < MaxFaults
        /\ faults' = faults + 1
        /\ LoopError(StoreState(telemetry, coldef, snap, TRUE))
     \/ /\ UNCHANGED faults
        /\ IF ReaderHolds /\ snap # <<>>
             THEN LoopError(StoreState(telemetry, coldef, snap, TRUE))
             ELSE /\ snap' = <<>>
                  /\ pc' = "poll"
                  /\ UNCHANGED <<telemetry, coldef, rows, feat, resp>>
  /\ UNCHANGED <<signal, dashVars, arrived, modelsLoaded, last_processed_id,
                 history, fedIds, judged, boot, req, res>>

\* KeyboardInterrupt: the loop breaks, the process ends, an open transaction
\* is rolled back when the connection is dropped.
Interrupt ==
  /\ pc \in {"poll", "feed", "infer", "write", "commit"}
  /\ pc' = "stopped"
  /\ telemetry' = Rollback(StoreState(telemetry, coldef, snap, FALSE)).t
  /\ coldef' = Rollback(StoreState(telemetry, coldef, snap, FALSE)).c
  /\ snap' = <<>>
  /\ rows' = <<>>
  /\ feat' = NoFeat
  /\ resp' = NoResp
  /\ UNCHANGED <<signal, dashVars, arrived, modelsLoaded, last_processed_id,
                 history, faults, fedIds, judged, boot, req, res>>

\* The operator starts the connector again: poll_and_process from line 117.
Relaunch ==
  /\ pc = "stopped"
  /\ pc' = "start"
  /\ last_processed_id' = 0
  /\ history' = <<>>
  /\ fedIds' = {}
  /\ judged' = {}
  /\ boot' = NoBoot
  /\ UNCHANGED <<signal, dashVars, arrived, telemetry, coldef, snap,
                 modelsLoaded, rows, feat, resp, faults, req, res>>

\* The simulator appends a sample (it cannot write while the connector
\* holds the write lock of an open transaction).
Insert ==
  /\ snap = <<>>
  /\ \E id \in IdUniverse :
       /\ id > MaxId(telemetry)
       /\ telemetry' =
            [i \in DOMAIN telemetry \cup {id} |->
               IF i = id
                 THEN NewRow(coldef, RawOf(id),
                             SampleSeconds * (Cardinality(DOMAIN telemetry) + 1))
                 ELSE telemetry[i]]
  /\ UNCHANGED <<signal, dashVars, arrived, coldef, snap, modelsLoaded, pc,
                 last_processed_id, history, rows, feat, resp, faults, fedIds,
                 judged, boot, req, res>>

\* ------------------------------------------------------------------------
\* db_poll_client.py : a FeatureEngineer driven on its own
\* ------------------------------------------------------------------------
\* Number of readings handed to one FeatureEngineer.
MaxReadings ==
  24

\* A pressure signal: the k-th reading is taken at dt * k + jitter * (k % 2)
\* seconds and reads 3.2 bar plus rate thousandths of a bar per ten seconds
\* plus a wobble on every other reading.
Signals ==
  [rate : {0, -1, -20, 5}, wobble : {0, 40}, dt : {0, 30}, jitter : {0, 10}]

NoSignal ==
  [rate |-> 0, wobble |-> 0, dt |-> 0, jitter |-> 0]

TimeOf(sig, k) ==
  sig.dt * k + sig.jitter * (k % 2)

ReadingOf(sig, k) ==
  <<TimeOf(sig, k),
    3200 + sig.rate * (TimeOf(sig, k) \div 10) + sig.wobble * (k % 2)>>

\* engineer.add_reading(timestamp, pressure) with the next reading.
AddReading ==
  /\ Len(arrived) < MaxReadings
  /\ history' = add_reading(history, ReadingOf(signal, Len(arrived))[1],
                            ReadingOf(signal, Len(arrived))[2])
  /\ arrived' = Append(arrived, ReadingOf(signal, Len(arrived)))
  /\ feat' = NoFeat
  /\ UNCHANGED <<signal, dashVars, telemetry, coldef, snap, modelsLoaded, pc,
                 last_processed_id, rows, resp, faults, fedIds, judged, boot,
                 req, res>>

\* drift, r2 = engineer.calculate_features()
Compute ==
  /\ feat = NoFeat
  /\ feat' = calculate_features(history)
  /\ UNCHANGED <<signal, dashVars, arrived, telemetry, coldef, snap,
                 modelsLoaded, pc, last_processed_id, history, rows, resp,
                 faults, fedIds, judged, boot, req, res>>

\* ------------------------------------------------------------------------
\* ai_dashboard.py : websocket fan-out (lines 294-353)
\* ------------------------------------------------------------------------
\* WebSocket objects, numbered in order of arrival.
NumConns ==
  2

Conns ==
  1..NumConns

PushLimit ==
  5

\* st: the client's side ("idle" not yet there, "open", "gone");
\* pc: the position of websocket_endpoint for this connection;
\* conn: the handler's sqlite connection ("open" holds a read lock).
Unconnected ==
  [st |-> "idle", pc |-> "none", last_id |-> 0, rows |-> <<>>,
   delivered |-> <<>>, conn |-> "closed"]

NoConnections ==
  [c \in Conns |-> Unconnected]

\* ConnectionManager.connect / disconnect
connect(conns, c) ==
  Append(conns, c)

disconnect(conns, c) ==
  SelectSeq(conns, LAMBDA x : x # c)

Registered(c) ==
  \E i \in 1..Len(active_connections) : active_connections[i] = c

\* Mutant: one cursor shared by all handlers (a module-level last_id).
CursorOf_shared(w, c) ==
  SetMax({w[d].last_id : d \in Conns})

\* The cursor the query of connection c starts from: its local last_id.
CursorOf(w, c) ==
  w[c].last_id

\* WHERE id > ? AND ai_risk_score IS NOT NULL ORDER BY id ASC LIMIT 5
WsRows(t, cursor) ==
  Take(Ascending({id \in DOMAIN t :
                    id > cursor /\ t[id].ai_risk_score # NullNum}), PushLimit)

\* The record sent for one row; row['ai_status'] or "PENDING"
Reading(t, id) ==
  [id |-> id, timestamp |-> t[id].timestamp_sim,
   risk_score |-> t[id].ai_risk_score,
   status |-> IF t[id].ai_status = NullText THEN "PENDING"
              ELSE t[id].ai_status,
   pressure |-> t[id].raw.quench_pressure]

\* What send_json raises on a connection the client has left, depending on
\* the server library: both are subclasses of Exception.
SendFailures ==
  {"WebSocketDisconnect", "RuntimeError"}

\* except Exception (line 347), entered before except WebSocketDisconnect
\* (line 352) can be.
InnerCatches(exc) ==
  exc \in {"WebSocketDisconnect", "RuntimeError", "OperationalError"}

\* Ids of the store t that carry a risk score.
AnalysedIds(t) ==
  {id \in DOMAIN t : t[id].ai_risk_score # NullNum}

\* manager.connect(websocket); last_id = 0
WsConnect(c) ==
  /\ ws[c].st = "idle"
  /\ c > 1 => ws[c - 1].st # "idle"
  /\ ws' = [ws EXCEPT ![c] = [st |-> "open", pc |-> "query", last_id |-> 0,
                              rows |-> <<>>, delivered |-> <<>>,
                              conn |-> "closed"]]
  /\ active_connections' = connect(active_connections, c)
  /\ UNCHANGED <<signal, arrived, telemetry, coldef, snap, modelsLoaded, pc,
                 last_processed_id, history, rows, feat, resp, faults, fedIds,
                 judged, boot, req, res>>

\* The client closes its end or drops off the network.
ClientClose(c) ==
  /\ ws[c].st = "open"
  /\ ws' = [ws EXCEPT ![c].st = "gone"]
  /\ UNCHANGED <<signal, arrived, active_connections, telemetry, coldef, snap,
                 modelsLoaded, pc, last_processed_id, history, rows, feat,
                 resp, faults, fedIds, judged, boot, req, res>>

\* Mutant: the connection is closed only after the batch has been sent.
AfterFetch_closeAfterSend(ids) ==
  IF ids = <<>> THEN "closed" ELSE "open"

\* rows = cur.fetchall(); conn.close() (lines 329-330), before any send
AfterFetch(ids) ==
  "closed"

\* Lines 318-330: the query on a connection of its own. It raises when a
\* verdict column does not exist, and it can raise "database is locked"
\* while the connector holds its write transaction; line 347 passes.
WsQuery(c) ==
  /\ ws[c].pc = "query"
  /\ \E busy \in {FALSE, snap # <<>>} :
       IF busy \/ ~HasCols(Committed.c, VerdictCols)
         THEN /\ InnerCatches("OperationalError")
              /\ ws' = [ws EXCEPT ![c].pc = "sleep", ![c].rows = <<>>]
         ELSE \E ids \in {WsRows(Committed.t, CursorOf(ws, c))} :
                ws' = [ws EXCEPT
                         ![c].pc = IF ids = <<>> THEN "sleep" ELSE "send",
                         ![c].conn = AfterFetch(ids),
                         ![c].rows = [i \in 1..Len(ids) |->
                                        Reading(Committed.t, ids[i])]]
  /\ UNCHANGED <<signal, arrived, active_connections, telemetry, coldef, snap,
                 modelsLoaded, pc, last_processed_id, history, rows, feat,
                 resp, faults, fedIds, judged, boot, req, res>>

\* Lines 332-345 for the first row not yet sent: send_json, then
\* last_id = row['id']. On a connection the client has left the send raises.
WsSend(c) ==
  /\ ws[c].pc = "send"
  /\ IF ws[c].st = "open"
       THEN /\ ws' = [ws EXCEPT
                       ![c].delivered = Append(@, Head(ws[c].rows)),
                       ![c].last_id = Head(ws[c].rows).id,
                       ![c].rows = Tail(@),
                       ![c].pc = IF Tail(ws[c].rows) = <<>> THEN "sleep"
                                 ELSE "send"]
            /\ UNCHANGED active_connections
       ELSE \E exc \in SendFailures :
              IF InnerCatches(exc)
                THEN /\ ws' = [ws EXCEPT ![c].pc = "sleep", ![c].rows = <<>>]
                     /\ UNCHANGED active_connections
                ELSE /\ ws' = [ws EXCEPT ![c].pc = "done", ![c].rows = <<>>]
                     /\ active_connections' =
                          disconnect(active_connections, c)
  /\ UNCHANGED <<signal, arrived, telemetry, coldef, snap, modelsLoaded, pc,
                 last_processed_id, history, rows, feat, resp, faults, fedIds,
                 judged, boot, req, res>>

\* await asyncio.sleep(1), then the next iteration
WsSleep(c) ==
  /\ ws[c].pc = "sleep"
  /\ ws' = [ws EXCEPT ![c].pc = "query"]
  /\ UNCHANGED <<signal, arrived, active_connections, telemetry, coldef, snap,
                 modelsLoaded, pc, last_processed_id, history, rows, feat,
                 resp, faults, fedIds, judged, boot, req, res>>

\* One step of the handler loop of connection c.
WsLoop(c) ==
  WsQuery(c) \/ WsSend(c) \/ WsSleep(c)

\* ------------------------------------------------------------------------
\* ai_api.py : a direct /predict request
\* ------------------------------------------------------------------------
PressureGrid ==
  {0, 300, 499, 500, 999, 1000, 3200}

DriftGrid ==
  {-120, -101, -100, -99, -60, -51, -50, -49, -30, -11, -10, -9, -5, -4,
   0, 4, 5, 20}

\* A request together with what the two classifiers do on it.
Requests ==
  [data : [pressure : PressureGrid, drift : DriftGrid, r2 : {950},
           temp : {900}, scan_speed : {10}, flow : {120},
           machine_state : StateLabels],
   xgb : XgbOutcomes, rf : RfOutcomes]

NoReq ==
  [data |-> [pressure |-> 0, drift |-> 0, r2 |-> 0, temp |-> 0,
             scan_speed |-> 0, flow |-> 0, machine_state |-> "UNKNOWN"],
   xgb |-> Raises, rf |-> Raises]

NotServed ==
  [kind |-> "none", status |-> "", risk_score |-> NoField,
   confidence |-> NoField, rca |-> "", drift_velocity |-> NoField]

api_health_check(loaded) ==
  [status |-> "online", models_loaded |-> loaded]

\* The service answers the request in hand.
Request ==
  /\ res = NotServed
  /\ res' = predict_health(req.data, modelsLoaded, req.xgb, req.rf)
  /\ UNCHANGED <<signal, dashVars, arrived, telemetry, coldef, snap,
                 modelsLoaded, pc, last_processed_id, history, rows, feat,
                 resp, faults, fedIds, judged, boot, req>>

\* The client sends the sample again with a lower drift reading, all other
\* fields and the classifiers' behaviour as before.
RequestLowerDrift ==
  /\ res # NotServed
  /\ \E d \in DriftGrid :
       /\ d < req.data.drift
       /\ req' = [req EXCEPT !.data.drift = d]
       /\ res' = predict_health(req'.data, modelsLoaded, req.xgb, req.rf)
  /\ UNCHANGED <<signal, dashVars, arrived, telemetry, coldef, snap,
                 modelsLoaded, pc, last_processed_id, history, rows, feat,
                 resp, faults, fedIds, judged, boot>>

\* ------------------------------------------------------------------------
\* Specifications
\* ------------------------------------------------------------------------
NoColumns ==
  [col \in AllCols |-> "absent"]

NativeColumns ==
  [col \in AllCols |-> "native"]

EmptyTable ==
  [id \in {} |-> 0]

Init ==
  /\ telemetry = EmptyTable
  /\ coldef \in {NoColumns, NativeColumns}
  /\ snap = <<>>
  /\ modelsLoaded \in BOOLEAN
  /\ pc = "start"
  /\ last_processed_id = 0
  /\ history = <<>>
  /\ rows = <<>>
  /\ feat = NoFeat
  /\ resp = NoResp
  /\ faults = 0
  /\ fedIds = {}
  /\ judged = {}
  /\ boot = NoBoot
  /\ req = NoReq
  /\ res = NotServed
  /\ arrived = <<>>
  /\ signal = NoSignal
  /\ ws = NoConnections
  /\ active_connections = <<>>

\* A service process (models loaded or not) with one request in hand.
InitPredict ==
  /\ telemetry = EmptyTable
  /\ coldef = NoColumns
  /\ snap = <<>>
  /\ modelsLoaded \in BOOLEAN
  /\ pc = "start"
  /\ last_processed_id = 0
  /\ history = <<>>
  /\ rows = <<>>
  /\ feat = NoFeat
  /\ resp = NoResp
  /\ faults = 0
  /\ fedIds = {}
  /\ judged = {}
  /\ boot = NoBoot
  /\ req \in Requests
  /\ res = NotServed
  /\ arrived = <<>>
  /\ signal = NoSignal
  /\ ws = NoConnections
  /\ active_connections = <<>>

Next ==
  \/ Insert
  \/ Startup
  \/ Poll
  \/ FeedRow
  \/ Infer
  \/ WriteBack
  \/ Commit
  \/ Interrupt
  \/ Relaunch

Spec ==
  Init /\ [][Next]_vars

\* The inference service alone, serving direct requests.
NextPredict ==
  \/ Request
  \/ RequestLowerDrift

\* A backlog the simulator left behind: the samples ids, none analysed yet.
Backlog(c, ids) ==
  [id \in ids |->
     NewRow(c, RawOf(id), SampleSeconds * Cardinality({j \in ids : j <= id}))]

\* What an earlier run of the connector has left on a row it analysed while
\* the window was steady and the classifiers saw nothing.
SteadyFeat ==
  [drift |-> 0, r2 |-> 1000]

EarlierVerdict(row) ==
  predict_health(Payload(row, SteadyFeat), TRUE, Gives(0, 500), Gives(0, 2000))

\* The store t after an earlier run has analysed the samples up to id upto.
Analysed(t, upto) ==
  [id \in DOMAIN t |->
     IF id <= upto
       THEN SetVerdict(t, id, EarlierVerdict(t[id]), SteadyFeat)[id]
       ELSE t[id]]

InitLive ==
  /\ coldef \in {NoColumns, NativeColumns}
  /\ telemetry \in {Backlog(coldef, ids) : ids \in SUBSET IdUniverse}
  /\ snap = <<>>
  /\ modelsLoaded \in BOOLEAN
  /\ pc = "start"
  /\ last_processed_id = 0
  /\ history = <<>>
  /\ rows = <<>>
  /\ feat = NoFeat
  /\ resp = NoResp
  /\ faults = 0
  /\ fedIds = {}
  /\ judged = {}
  /\ boot = NoBoot
  /\ req = NoReq
  /\ res = NotServed
  /\ arrived = <<>>
  /\ signal = NoSignal
  /\ ws = NoConnections
  /\ active_connections = <<>>

\* The connector left running on a backlog: no KeyboardInterrupt, and the
\* process keeps taking its next step (a sequential program, never suspended).
NextLive ==
  \/ Startup
  \/ Poll
  \/ FeedRow
  \/ Infer
  \/ WriteBack
  \/ Commit

SpecLive ==
  InitLive /\ [][NextLive]_vars /\ WF_vars(NextLive)

SpecPredict ==
  InitPredict /\ [][NextPredict]_vars

\* Samples the store holds beyond one full window.
WarmExtra ==
  2

\* The connector started on a store an earlier run has worked on: n samples
\* of which the last, or none, is still to be analysed, and possibly one
\* sample far ahead, at or just beyond the lag threshold from the resume
\* point. A store without the verdict columns has never been analysed.
WarmStores(c) ==
  IF c = NativeColumns
    THEN UNION {
           {Analysed(Backlog(c, (1..n) \cup (IF far = 0 THEN {}
                                             ELSE {upto + far})), upto) :
              upto \in {n - 1, n},
              far \in {0, LagThreshold, LagThreshold + 1}} :
           n \in {2, WINDOW_SIZE, WINDOW_SIZE + WarmExtra}}
    ELSE {Backlog(c, (1..2) \cup (IF far = 0 THEN {} ELSE {far})) :
            far \in {0, LagThreshold, LagThreshold + 1}}

InitWarm ==
  /\ coldef \in {NoColumns, NativeColumns}
  /\ telemetry \in WarmStores(coldef)
  /\ snap = <<>>
  /\ modelsLoaded = TRUE
  /\ pc = "start"
  /\ last_processed_id = 0
  /\ history = <<>>
  /\ rows = <<>>
  /\ feat = NoFeat
  /\ resp = NoResp
  /\ faults = 0
  /\ fedIds = {}
  /\ judged = {}
  /\ boot = NoBoot
  /\ req = NoReq
  /\ res = NotServed
  /\ arrived = <<>>
  /\ signal = NoSignal
  /\ ws = NoConnections
  /\ active_connections = <<>>

\* The connector from its start up to step C of the first sample it feeds.
NextWarm ==
  \/ Startup
  \/ Poll
  \/ FeedRow

SpecWarm ==
  InitWarm /\ [][NextWarm]_vars

\* A FeatureEngineer on its own, fed one pressure signal.
InitWindow ==
  /\ telemetry = EmptyTable
  /\ coldef = NoColumns
  /\ snap = <<>>
  /\ modelsLoaded = FALSE
  /\ pc = "start"
  /\ last_processed_id = 0
  /\ history = <<>>
  /\ rows = <<>>
  /\ feat = NoFeat
  /\ resp = NoResp
  /\ faults = 0
  /\ fedIds = {}
  /\ judged = {}
  /\ boot = NoBoot
  /\ req = NoReq
  /\ res = NotServed
  /\ arrived = <<>>
  /\ signal \in Signals
  /\ ws = NoConnections
  /\ active_connections = <<>>

NextWindow ==
  \/ AddReading
  \/ Compute

SpecWindow ==
  InitWindow /\ [][NextWindow]_vars

\* One step of the connector process.
ConnectorStep ==
  Startup \/ Poll \/ FeedRow \/ Infer \/ WriteBack \/ Commit

\* The dashboard next to a connector that works through a backlog, on a
\* store whose first sample an earlier run has analysed. The event loop keeps
\* running every handler that is ready and the connector process keeps
\* running.
InitDash ==
  /\ coldef = NativeColumns
  /\ telemetry = Analysed(Backlog(coldef, 1..NumLowIds), 1)
  /\ snap = <<>>
  /\ modelsLoaded = TRUE
  /\ pc = "start"
  /\ last_processed_id = 0
  /\ history = <<>>
  /\ rows = <<>>
  /\ feat = NoFeat
  /\ resp = NoResp
  /\ faults = 0
  /\ fedIds = {}
  /\ judged = AnalysedIds(telemetry)
  /\ boot = NoBoot
  /\ req = NoReq
  /\ res = NotServed
  /\ arrived = <<>>
  /\ signal = NoSignal
  /\ ws = NoConnections
  /\ active_connections = <<>>

NextDash ==
  \/ Startup
  \/ Poll
  \/ FeedRow
  \/ Infer
  \/ WriteBack
  \/ Commit
  \/ \E c \in Conns : WsConnect(c)
  \/ \E c \in Conns : ClientClose(c)
  \/ \E c \in Conns : WsQuery(c)
  \/ \E c \in Conns : WsSend(c)
  \/ \E c \in Conns : WsSleep(c)

SpecDash ==
  /\ InitDash /\ [][NextDash]_vars
  /\ \A c \in Conns : WF_vars(WsLoop(c))
  /\ WF_vars(ConnectorStep)


\* ------------------------------------------------------------------------
\* Properties
\* ------------------------------------------------------------------------
\* A polling cycle has ended and its transaction is closed.
BetweenCycles ==
  pc = "poll" /\ snap = <<>> /\ rows = <<>>

\* The step that feeds the first row of the batch to the window.
FeedStep ==
  pc = "feed" /\ pc' \in {"infer", "poll"}

\* The step that ends the processing of the first row of the batch.
WriteStep ==
  pc = "write" /\ pc' \in {"feed", "commit"}

\* The step that ends start-up.
StartStep ==
  pc = "start" /\ pc' = "poll"

\* C1: cursor monotonicity. Between polling cycles in which no store fault
\* occurred and every inference call returned a verdict, the greatest id whose
\* ai_status is set equals the greatest processed id, which is the in-memory
\* cursor, and every processed id has a persisted verdict; within one
\* connector instance the in-memory cursor never decreases.
C1_CursorMonotonicity ==
  /\ [](BetweenCycles /\ faults = 0 /\ fedIds # {} /\ fedIds \subseteq judged
          => /\ ResumePoint(telemetry, coldef) = SetMax(fedIds)
             /\ last_processed_id = SetMax(fedIds)
             /\ \A id \in fedIds : HasVerdict(telemetry, coldef, id))
  /\ [][pc # "stopped" => last_processed_id' >= last_processed_id]_vars

\* C2: every id the main loop passes to add_reading is greater than every id
\* it passed before (strictly increasing, nothing fed twice), also after a
\* loop error.
C2_FedInIncreasingOrder ==
  [][FeedStep => \A j \in fedIds : Head(rows) > j]_vars

\* C3: lag-skip. With no store fault at start-up: if newest id minus resume
\* point exceeds 1000 the cursor is the newest id and no id strictly between
\* the resume point and the cursor is fed or evaluated by this instance;
\* otherwise the cursor is the resume point.
C3_LagSkip ==
  boot.done /\ faults = 0
    => IF boot.newest - boot.resume > LagThreshold
         THEN /\ boot.cursor = boot.newest
              /\ \A id \in fedIds \cup judged :
                   ~(boot.resume < id /\ id < boot.cursor)
         ELSE boot.cursor = boot.resume

\* C4: with no store fault, start-up leaves the cursor at the last id that
\* carries a verdict of the decision engine, unless the lag-skip applies.
C4_ResumeAtLastVerdict ==
  [][StartStep /\ faults' = 0
       /\ MaxId(telemetry) - LastVerdictId(telemetry, coldef) <= LagThreshold
     => last_processed_id' = LastVerdictId(telemetry, coldef)]_vars

\* C5: the cursor eventually advances past every sample the poll returned,
\* and it advances only onto a sample that was fed to the window.
C5_NoSampleBlocksThePipeline ==
  /\ \A id \in IdUniverse :
       (pc = "feed" /\ Head(rows) = id) ~> (last_processed_id >= id)
  /\ [][last_processed_id' # last_processed_id /\ pc # "start"
          => last_processed_id' \in fedIds]_vars

\* C6: a write that meets a missing column ends with the columns present and
\* the values of that sample written: the feature write of step B2 (when no
\* transient fault hits the step) and the verdict write of step E.
C6_SchemaUpgradeRetriesTheWrite ==
  /\ [][FeedStep /\ faults' = faults /\ ~HasCols(coldef, FeatureCols)
          => /\ pc' = "infer"
             /\ HasCols(coldef', FeatureCols)
             /\ telemetry'[Head(rows)].drift_velocity = feat'.drift
             /\ telemetry'[Head(rows)].confidence_r2 = feat'.r2]_vars
  /\ [][WriteStep /\ resp.code = 200 /\ resp.body.kind = "verdict"
          /\ ~HasCols(coldef, AllCols)
          => /\ HasCols(coldef', AllCols)
             /\ telemetry'[Head(rows)].ai_status = resp.body.status
             /\ telemetry'[Head(rows)].ai_risk_score = resp.body.risk_score
             /\ telemetry'[Head(rows)].drift_velocity = feat.drift
             /\ telemetry'[Head(rows)].confidence_r2 = feat.r2]_vars

\* The /predict call for the row in hand failed: no answer, a non-200
\* answer, or an error payload.
InferenceFailed ==
  resp.code # 200 \/ resp.body.kind = "error"

\* C7: the step that ends a sample whose inference failed leaves that
\* sample's ai_status and ai_risk_score as they were, and any ai_status the
\* step writes is one of the five verdict statuses.
C7_FailureIsNeverAVerdict ==
  [][WriteStep
       => /\ InferenceFailed
            => /\ telemetry'[Head(rows)].ai_status = telemetry[Head(rows)].ai_status
               /\ telemetry'[Head(rows)].ai_risk_score = telemetry[Head(rows)].ai_risk_score
          /\ \/ telemetry'[Head(rows)].ai_status = telemetry[Head(rows)].ai_status
             \/ telemetry'[Head(rows)].ai_status \in VerdictStatuses]_vars

\* The request in hand has been answered.
Served ==
  res # NotServed

PassesGuardrails(data) ==
  ~StandbyGate(data) /\ ~OfflineGate(data)

\* The request reaches the secondary model.
Escalated(r) ==
  /\ PassesGuardrails(r.data)
  /\ ~XgbCall(modelsLoaded, r.xgb).raises
  /\ blended_risk(r.xgb.prob, Drift_Velocity(r.data.drift)) >= WarningBelow

\* C8: whenever a classifier that predict_health calls raises, the primary
\* or the secondary, the result is the explicit error result.
C8_InferenceErrorIsExplicit ==
  Served
    => /\ PassesGuardrails(req.data) /\ XgbCall(modelsLoaded, req.xgb).raises
            => res.kind = "error"
       /\ Escalated(req) /\ RfCall(modelsLoaded, req.rf).raises
            => res.kind = "error"

\* C9: a service whose models did not load never answers with a verdict.
C9_NoServiceWithoutModels ==
  Served /\ ~modelsLoaded => res.kind # "verdict"

\* C10 as stated: pressure below 0.5 gives OFFLINE, confidence 0.0, risk
\* 0.99, whatever machine_state is.
C10_OfflineWhateverTheState ==
  Served /\ req.data.pressure < OfflinePressure
    => res = Verdict("OFFLINE", OfflineRisk, 0, "", NoField)

\* C10 amended: pressure below 0.5 gives OFFLINE, confidence 0.0, risk 0.99
\* when machine_state normalises to an active state, and STANDBY with risk
\* 0.0 when it does not; the other fields and the classifiers play no part.
C10_OfflineInActiveState ==
  Served /\ req.data.pressure < OfflinePressure
    => IF current_state(req.data.machine_state) \in valid_states
         THEN res = Verdict("OFFLINE", OfflineRisk, 0, "", NoField)
         ELSE res = Verdict("STANDBY", 0, 0, "", NoField)

\* C10 witness: a low-pressure request in an active state, padded and in
\* lower case, was answered OFFLINE although the models were not loaded.
C10_Witness ==
  /\ Served
  /\ req.data.pressure < OfflinePressure
  /\ req.data.machine_state = "quench_pad"
  /\ ~modelsLoaded
  /\ res.status = "OFFLINE"

\* machine_state labels that read QUENCH or COMPLETED once upper-cased and
\* stripped of surrounding whitespace.
ActiveLabels ==
  {"QUENCH", "quench_pad", "Completed"}

BlendedOf(r) ==
  blended_risk(r.xgb.prob, Drift_Velocity(r.data.drift))

\* C12: once both guardrails pass and the classifiers consulted return, the
\* status follows the table on blended risk b: b < 0.4 OPTIMAL (rca NONE);
\* 0.4 <= b < 0.8 WARNING (rca EARLY_DRIFT), the secondary model playing no
\* part in either; b >= 0.8 CRITICAL_FAILURE (rca DRIFT_CONFIRMED, risk
\* max(b, secondary probability)) iff the secondary predicts failure or
\* b > 0.9, and otherwise WARNING (rca EARLY_DRIFT, risk b).
C12_StatusTable ==
  Served /\ PassesGuardrails(req.data) /\ modelsLoaded /\ ~req.xgb.raises
    => LET b == BlendedOf(req)
       IN  IF b < 4000
             THEN /\ res.status = "OPTIMAL" /\ res.rca = "NONE"
                  /\ res.risk_score = b
           ELSE IF b < 8000
             THEN /\ res.status = "WARNING" /\ res.rca = "EARLY_DRIFT"
                  /\ res.risk_score = b
           ELSE ~req.rf.raises
                  => IF req.rf.pred = 1 \/ b > 9000
                       THEN /\ res.status = "CRITICAL_FAILURE"
                            /\ res.rca = "DRIFT_CONFIRMED"
                            /\ res.risk_score = Max(b, req.rf.prob)
                       ELSE /\ res.status = "WARNING"
                            /\ res.rca = "EARLY_DRIFT"
                            /\ res.risk_score = b

\* C12 witness: blended risk exactly 0.9 and a secondary model that does not
\* predict failure: the answer is WARNING with risk 0.9.
C12_Witness ==
  /\ Served
  /\ PassesGuardrails(req.data)
  /\ modelsLoaded /\ ~req.xgb.raises /\ ~req.rf.raises
  /\ BlendedOf(req) = 9000
  /\ req.rf.pred = 0
  /\ res.status = "WARNING"
  /\ res.risk_score = 9000

\* C13: with the primary probability fixed, the blended risk does not
\* decrease when the drift decreases, deadband and breakpoints included.
C13_BlendedRiskMonotone ==
  [][/\ req'.xgb = req.xgb /\ ~req.xgb.raises
     /\ req'.data.drift <= req.data.drift
     => BlendedOf(req') >= BlendedOf(req)]_vars

\* C13 witness: a request just below the -0.05 breakpoint was answered, the
\* drift passed through and the risk in the answer is the blended risk,
\* above that of the breakpoint itself.
C13_Witness ==
  /\ Served
  /\ modelsLoaded /\ ~req.xgb.raises
  /\ req.data.drift = -51
  /\ res.status = "WARNING"
  /\ res.drift_velocity = -51
  /\ res.risk_score = BlendedOf(req)
  /\ res.risk_score > blended_risk(req.xgb.prob, -50)

\* C14: a sample that passes both guardrails with drift <= -0.05 is never
\* OPTIMAL: when the classifiers consulted return, the status is WARNING or
\* CRITICAL_FAILURE whatever they return.
C14_DriftDominates ==
  Served /\ PassesGuardrails(req.data) /\ req.data.drift <= -50
    => /\ res.status # "OPTIMAL"
       /\ res.kind = "verdict"
            => res.status \in {"WARNING", "CRITICAL_FAILURE"}
       /\ modelsLoaded /\ ~req.xgb.raises /\ ~req.rf.raises
            => res.kind = "verdict"

\* C14 witness: pressure 3.2, drift -0.06 and a calm primary classifier
\* (probability 0.05): the answer is WARNING.
C14_Witness ==
  /\ Served
  /\ req.data.pressure = 3200
  /\ req.data.drift = -60
  /\ req.data.machine_state = "QUENCH"
  /\ modelsLoaded
  /\ req.xgb = Gives(0, 500)
  /\ res.status = "WARNING"

\* The window has been measured since the last reading came in.
Measured ==
  feat # NoFeat

\* C15: the window holds at most 20 samples, and they are the most recently
\* added ones in arrival order.
C15_WindowHoldsLatest ==
  /\ Len(history) <= 20
  /\ Len(history) = IF Len(arrived) < 20 THEN Len(arrived) ELSE 20
  /\ \A i \in 1..Len(history) :
       history[i] = arrived[Len(arrived) - Len(history) + i]

\* C15 witness: 23 readings of a falling signal came in; the window holds
\* the last 20, the 4th reading first.
C15_Witness ==
  /\ Len(arrived) = 23
  /\ signal.rate = -20 /\ signal.dt > 0
  /\ Len(history) = 20
  /\ history[1] = arrived[4]
  /\ history[20] = arrived[23]
  /\ history[1] # arrived[1]

\* C16: for every window of fewer than 5 samples calculate_features returns
\* drift 0.0 and r2 1.0.
C16_ShortWindowIsStable ==
  Measured /\ Len(history) < 5 => feat = [drift |-> 0, r2 |-> 1000]

\* C16 witness: four readings of a fast falling signal, measured as drift 0.0
\* and r2 1.0.
C16_Witness ==
  /\ Len(history) = 4
  /\ signal.rate = -20 /\ signal.dt > 0
  /\ history[4][2] < history[1][2]
  /\ feat = [drift |-> 0, r2 |-> 1000]

AllPressuresEqual(h) ==
  \A i \in 1..Len(h) : h[i][2] = h[1][2]

\* C17: for every window of 5 or more samples whose pressures are all the
\* same, calculate_features returns drift 0.0 and r2 1.0, whatever the
\* timestamps.
C17_FlatWindowIsStable ==
  Measured /\ Len(history) >= 5 /\ AllPressuresEqual(history)
    => feat = [drift |-> 0, r2 |-> 1000]

\* C17 witness: a full window of equal pressures that all carry the same
\* timestamp, measured as drift 0.0 and r2 1.0.
C17_Witness ==
  /\ Len(history) = 20
  /\ AllPressuresEqual(history)
  /\ \A i \in 1..20 : history[i][1] = history[1][1]
  /\ feat = [drift |-> 0, r2 |-> 1000]

\* Pressure falls strictly and linearly over strictly increasing time.
LinearDecreasing(h) ==
  /\ Len(h) >= 2
  /\ \A i \in 1..(Len(h) - 1) : h[i][1] < h[i + 1][1] /\ h[i][2] > h[i + 1][2]
  /\ \A i \in 1..Len(h) :
       (h[i][2] - h[1][2]) * (h[2][1] - h[1][1])
         = (h[2][2] - h[1][2]) * (h[i][1] - h[1][1])

\* Variance of the pressures of the window at least 0.0001 bar^2.
VarianceAtLeastFloor(h) ==
  Cov([i \in 1..Len(h) |-> h[i][2]], [i \in 1..Len(h) |-> h[i][2]])
    >= 100 * Len(h) * Len(h)

\* C18 as stated: every window whose pressure falls strictly and linearly
\* over time is measured with a negative slope and r2 1.0 (within 0.001),
\* whatever the slope and the window length.
C18_LinearDeclineAnyWindow ==
  Measured /\ LinearDecreasing(history)
    => feat.drift < 0 /\ feat.r2 >= 999

\* C18 amended: a window of 5 or more samples whose pressure falls strictly
\* and linearly over time and has variance of at least 0.0001 bar^2 is
\* measured with a negative slope and r2 1.0 (within 0.001); with fewer than
\* 5 samples or a smaller variance it is measured as drift 0.0 and r2 1.0.
C18_LinearDeclineAboveFloor ==
  Measured /\ LinearDecreasing(history)
    => IF Len(history) >= 5 /\ VarianceAtLeastFloor(history)
         THEN feat.drift < 0 /\ feat.r2 >= 999 /\ feat.r2 <= 1000
         ELSE feat = [drift |-> 0, r2 |-> 1000]

\* C18 witness: a full window of a slow linear decline, taken at uneven
\* intervals, measured with slope -0.006 bar/min and r2 1.0.
C18_Witness ==
  /\ Len(history) = 20
  /\ LinearDecreasing(history)
  /\ signal.rate = -1 /\ signal.jitter > 0
  /\ feat = [drift |-> -6, r2 |-> 1000]

\* Ids of the readings delivered on connection c so far, in delivery order.
DeliveredIds(c) ==
  [i \in 1..Len(ws[c].delivered) |-> ws[c].delivered[i].id]

LastDelivered(c) ==
  IF ws[c].delivered = <<>> THEN 0
  ELSE ws[c].delivered[Len(ws[c].delivered)].id

\* Ids in the committed store that carry a risk score and lie above id.
AnalysedAbove(id) ==
  {j \in DOMAIN Committed.t :
     j > id /\ Committed.t[j].ai_risk_score # NullNum}

\* The handler of connection c fetches a batch to send.
FetchStep(c) ==
  ws[c].pc = "query" /\ ws'[c].pc = "send"

\* C19: on one connection the readings are delivered in strictly increasing
\* id order, none twice; each connection has a cursor of its own: the batch a
\* handler fetches is the next (at most 5) analysed ids above the last id
\* delivered on that same connection, whatever the other connections have
\* received, and a step of one handler changes nothing of another's.
C19_OrderedPerConnection ==
  /\ [](\A c \in Conns :
          \A i, j \in 1..Len(ws[c].delivered) :
            i < j => DeliveredIds(c)[i] < DeliveredIds(c)[j])
  /\ [][\A c \in Conns :
          FetchStep(c)
            => LET S   == AnalysedAbove(LastDelivered(c))
                   got == {ws'[c].rows[i].id : i \in 1..Len(ws'[c].rows)}
               IN  /\ got \subseteq S
                   /\ \A i \in 1..(Len(ws'[c].rows) - 1) :
                        ws'[c].rows[i].id < ws'[c].rows[i + 1].id
                   /\ \A a \in got, b \in S \ got : a < b
                   /\ Len(ws'[c].rows)
                        = IF Cardinality(S) < 5 THEN Cardinality(S) ELSE 5]_vars
  /\ [][\A c, d \in Conns : ws'[c] # ws[c] /\ d # c => ws'[d] = ws[d]]_vars

\* C19 witness: the first connection has received ids 1 and 2, the second,
\* which is behind, has received id 1 and holds id 2 ready to send.
C19_Witness ==
  /\ DeliveredIds(1) = <<1, 2>>
  /\ DeliveredIds(2) = <<1>>
  /\ ws[2].pc = "send"
  /\ ws[2].rows[1].id = 2

\* C20: a subscriber that has disconnected is eventually removed from
\* active_connections and its delivery loop has stopped.
C20_DisconnectedIsRemoved ==
  \A c \in Conns :
    (ws[c].st = "gone") ~> (~Registered(c) /\ ws[c].pc = "done")

\* Connection c is accepted.
SubscribeStep(c) ==
  ws[c].st = "idle" /\ ws'[c].st = "open"

\* C21: a connection receives only verdicts produced after it subscribed:
\* at the step that accepts a connection, the batch its query selects from
\* the committed store, which is what it is sent first, holds no id, as
\* every id that carries a risk score then existed at subscription time.
C21_OnlyNewVerdicts ==
  [][\A c \in Conns :
       SubscribeStep(c)
         => \A id \in AnalysedIds(Committed.t) :
              \A i \in 1..Len(WsRows(Committed.t, CursorOf(ws', c))) :
                WsRows(Committed.t, CursorOf(ws', c))[i] # id]_vars

\* C22: no verdict is lost on the way to a live subscriber: a verdict in the
\* committed store while connection c is open is eventually delivered on c
\* (or the client leaves); and every reading delivered carries one of the
\* five statuses of the decision engine, for an id it returned a verdict for.
C22_NoVerdictLost ==
  /\ \A c \in Conns : \A id \in IdUniverse :
       (ws[c].st = "open" /\ id \in AnalysedIds(Committed.t))
         ~> (ws[c].st # "open"
               \/ \E i \in 1..Len(ws[c].delivered) : DeliveredIds(c)[i] = id)
  /\ [](\A c \in Conns : \A i \in 1..Len(ws[c].delivered) :
          /\ ws[c].delivered[i].status \in VerdictStatuses
          /\ ws[c].delivered[i].id \in judged)

\* The connector's variables.
connectorVars ==
  <<telemetry, coldef, snap, pc, last_processed_id, history, rows, feat, resp,
    faults, fedIds, judged, boot>>

\* C23: a slow, stalled or failing subscriber never blocks the producer.
\* Whatever state the websocket handlers are in, the connector has a step it
\* can take, the step that ends a sample and advances the cursor is enabled
\* when the connector stands at it, a commit not hit by a store fault commits
\* the batch (it is not rolled back), and no step of a handler or client
\* changes anything the connector reads.
C23_SubscriberNeverBlocks ==
  /\ [](/\ ENABLED ConnectorStep
        /\ pc = "write" => ENABLED WriteBack)
  /\ [][pc = "commit" /\ pc' = "poll" /\ faults' = faults
          => /\ snap' = <<>>
             /\ telemetry' = telemetry
             /\ coldef' = coldef]_vars
  /\ [][ws' # ws \/ active_connections' # active_connections
          => UNCHANGED connectorVars]_vars

\* C23 witness: the connector stands at the commit of an open transaction
\* while one subscriber has left with a fetched batch still unsent and
\* another holds a fetched batch it has not sent yet.
C23_Witness ==
  /\ pc = "commit"
  /\ snap # <<>>
  /\ ws[1].st = "gone" /\ ws[1].pc = "send"
  /\ ws[2].st = "open" /\ ws[2].pc = "send" /\ ws[2].delivered = <<>>

\* C24: cancellation is not observable mid-sample. When the loop has stopped
\* on a KeyboardInterrupt, every sample that was fed to the window has been
\* completed (the cursor stands at or above it), and every such sample has
\* its features in the committed store and, if the service returned a verdict
\* for it, that verdict too.
C24_NoMidSampleCancellation ==
  pc = "stopped"
    => \A id \in fedIds :
         /\ id <= last_processed_id
         /\ HasCols(coldef, FeatureCols)
         /\ telemetry[id].drift_velocity # NullNum
         /\ id \in judged => HasVerdict(telemetry, coldef, id)

\* The connector has added a feature column itself and the feature UPDATE
\* of the sample now fed still meets a missing column.
MissingColumnAgain ==
  /\ pc = "feed"
  /\ history' # history
  /\ \E col \in FeatureCols : coldef[col] = "added"
  /\ ~HasCols(coldef, FeatureCols)

\* C25: when a missing-column failure recurs after the connector has
\* performed its schema migration, the connector stops: the step in which
\* the failure recurs ends the main loop.
C25_RepeatedFailureStops ==
  [][MissingColumnAgain => pc' = "stopped"]_vars

\* C27: every verdict's risk_score lies in [0, 1] and agrees with its status:
\* STANDBY has risk 0.0, OFFLINE 0.99, OPTIMAL a risk below 0.4, WARNING a
\* risk from 0.4 to 0.9, CRITICAL_FAILURE a risk of at least 0.8; and the
\* blended risk, and with it the risk of every verdict of the classifiers, is
\* never below the primary probability.
C27_RiskAgreesWithStatus ==
  Served /\ res.kind = "verdict"
    => /\ res.risk_score >= 0 /\ res.risk_score <= 10000
       /\ res.status \in VerdictStatuses
       /\ res.status = "STANDBY" => res.risk_score = 0
       /\ res.status = "OFFLINE" => res.risk_score = 9900
       /\ res.status = "OPTIMAL" => res.risk_score < 4000
       /\ res.status = "WARNING"
            => res.risk_score >= 4000 /\ res.risk_score <= 9000
       /\ res.status = "CRITICAL_FAILURE" => res.risk_score >= 8000
       /\ PassesGuardrails(req.data)
            => /\ BlendedOf(req) >= req.xgb.prob
               /\ res.risk_score >= BlendedOf(req)

\* C27 witness: a WARNING at the upper end of its range: the primary gives
\* 0.5, the drift is beyond -0.10, the blend is exactly 0.9 and the secondary
\* model does not predict failure.
C27_Witness ==
  /\ Served
  /\ req.xgb.prob = 5000
  /\ res.status = "WARNING"
  /\ res.risk_score = 9000

\* C28: drift_risk is a piecewise-linear function of the deadbanded drift with
\* values in [0, 1]: 0 from -0.01 upwards (every positive drift included),
\* on the straight line from 0 at -0.01 to 0.5 at -0.05, on the straight
\* line from 0.5 at -0.05 to 1.0 at -0.10, and 1.0 below; at each of the three
\* breakpoints the two adjoining pieces give the same value. With a primary
\* probability of 0 an OPTIMAL or WARNING verdict carries 0.8 times it.
C28_DriftRiskCurve ==
  LET d == Drift_Velocity(req.data.drift)
      r == drift_risk(d)
  IN  /\ r >= 0 /\ r <= 10000
      /\ d >= -10 => r = 0
      /\ d <= -10 /\ d >= -50 => r * 40 = 5000 * ((-d) - 10)
      /\ d <= -50 /\ d >= -100 => (r - 5000) * 50 = 5000 * ((-d) - 50)
      /\ d <= -100 => r = 10000
      /\ (/\ Served /\ res.kind = "verdict" /\ PassesGuardrails(req.data)
          /\ req.xgb.prob = 0 /\ res.status \in {"OPTIMAL", "WARNING"})
           => res.risk_score * 10 = r * 8

\* C28 witness: a request at the breakpoint -0.05 whose primary probability
\* is 0 has been answered with risk 0.8 * 0.5.
C28_Witness ==
  /\ Served
  /\ req.data.drift = -50
  /\ req.xgb.prob = 0
  /\ res.status = "WARNING"
  /\ res.risk_score = 4000

\* The same request with a drift of exactly 0.
ZeroDrift(r) ==
  [r EXCEPT !.data.drift = 0]

\* C29: deadband. A request whose drift d has |d| < 0.005 is answered exactly
\* as the same request with drift 0 (the classifiers behaving alike), and a
\* verdict of the classifiers carries drift_velocity 0; a drift with
\* |d| >= 0.005 is passed on unchanged: the verdict carries d itself and its
\* risk is at least the blend of the risk curve at d.
C29_Deadband ==
  Served
    => LET d == req.data.drift
       IN  /\ Abs(d) < 5
                => /\ res = predict_health(ZeroDrift(req).data, modelsLoaded,
                                           req.xgb, req.rf)
                   /\ res.kind = "verdict" /\ PassesGuardrails(req.data)
                        => res.drift_velocity = 0
           /\ Abs(d) >= 5 /\ res.kind = "verdict" /\ PassesGuardrails(req.data)
                => /\ res.drift_velocity = d
                   /\ res.risk_score
                        >= (drift_risk(d) * 8 + req.xgb.prob * 2) \div 10

\* C29 witness: a request with drift -0.004 has been answered by the
\* classifiers with a verdict that carries drift_velocity 0.
C29_Witness ==
  /\ Served
  /\ res.kind = "verdict"
  /\ PassesGuardrails(req.data)
  /\ req.data.drift = -4
  /\ res.drift_velocity = 0

\* The window the claim describes for cursor position cursor: the readings
\* of the min(20, k) greatest ids at or below the cursor, in ascending order.
WarmWindow(t, cursor) ==
  LET S   == {id \in DOMAIN t : id <= cursor}
      k   == Cardinality(S)
      m   == IF k < 20 THEN k ELSE 20
      ids == Ascending({id \in S : Cardinality({j \in S : j > id}) < m})
  IN  [i \in 1..m |->
         <<t[ids[i]].timestamp_sim, t[ids[i]].raw.quench_pressure>>]

\* The first sample of this run is fed to the window.
FirstFeed ==
  FeedStep /\ fedIds = {}

\* The window after the reading of sample id has been added to window w.
WithSample(w, t, id) ==
  LastN(Append(w, <<t[id].timestamp_sim, t[id].raw.quench_pressure>>), 20)

\* C30 as stated: when start-up completes the window holds exactly the
\* min(20, k) most recent samples with id <= cursor in ascending id order, on
\* the resume path and after a lag-skip, and the first live computation uses
\* that window plus the first new sample.
C30_WarmWindowAlways ==
  /\ [][StartStep
          => history' = WarmWindow(telemetry, last_processed_id')]_vars
  /\ [][FirstFeed
          => history' = WithSample(WarmWindow(telemetry, boot.cursor),
                                   telemetry, Head(rows))]_vars

\* A start-up query has raised: the ai_status column is missing, or a store
\* fault hit one of the three queries.
StartQueryRaised ==
  coldef["ai_status"] = "absent" \/ faults' # faults

\* C30 amended: when none of the start-up queries raises, the window holds
\* exactly the min(20, k) most recent samples with id <= cursor in ascending
\* id order, on the resume path and after a lag-skip; when one raises the
\* window is empty, wherever the cursor stands. The first live computation
\* uses the window start-up left plus the first new sample.
C30_WarmWindowUnlessQueryRaises ==
  /\ [][StartStep
          => history' = IF StartQueryRaised THEN <<>>
                        ELSE WarmWindow(telemetry, last_processed_id')]_vars
  /\ [][FirstFeed
          => /\ history' = WithSample(history, telemetry, Head(rows))
             /\ faults = 0
                  => history = WarmWindow(telemetry, boot.cursor)]_vars

\* C30 witness: start-up has ended after a lag-skip over a store that holds
\* more than 20 samples at or below the cursor, and the window is full.
C30_Witness ==
  /\ boot.done
  /\ pc = "poll"
  /\ fedIds = {}
  /\ boot.cursor = boot.newest
  /\ boot.cursor > boot.resume
  /\ Cardinality({id \in DOMAIN telemetry : id <= boot.cursor}) > 20
  /\ Len(history) = 20
  /\ history = WarmWindow(telemetry, boot.cursor)

====
